---- MODULE Spec2Model ----
(***************************************************************************)
(* State-machine model of the two revisions of the Arabic PDF -> Word      *)
(* Streamlit script:                                                       *)
(*    revision "A" = src/streamlit_app.py                                  *)
(*    revision "B" = src/streamlit_app.py.py                               *)
(* One behaviour of the model is one run of the script, top to bottom.     *)
(*                                                                         *)
(* Strings are kept as run-length encoded sequences of code points: the    *)
(* run <<c, n>> stands for n >= 1 copies of code point c, so a text of     *)
(* 100 characters is a short value.  Len, strip and concatenation are      *)
(* computed on that representation as Python computes them on str.         *)
(* File names are sequences of one-character strings.                      *)
(***************************************************************************)
EXTENDS Integers, Sequences, FiniteSets, TLC

\* ------------------------------------------------------------------ bounds
MaxFiles == 2
MaxPages == 2
MaxScanPages == 2
MaxBlocks == 2

\* ------------------------------------------------------- program constants
\* text_chars < 100  /  len(text.strip()) < 100
ScanThreshold == 100
\* "\u0600" <= c <= "\u06FF"
ArabicLo == 1536
ArabicHi == 1791
\* start_page = None / end_page = None (also: never bound in revision A)
NoPage == 0
\* number_input(..., min_value=1, ...)
MinPageInput == 1

\* ------------------------------------------------------------------ strings
RECURSIVE TextLen(_)
\* len(s)
TextLen(s) == IF s = <<>> THEN 0 ELSE s[1][2] + TextLen(Tail(s))

\* str.isspace() for one code point (the code points Python's strip() removes)
IsSpace(c) ==
    \/ c \in 9..13
    \/ c \in 28..32
    \/ c \in {133, 160, 5760, 8232, 8233, 8239, 8287, 12288}
    \/ c \in 8192..8202

RECURSIVE LStrip(_)
LStrip(s) == IF s = <<>> THEN <<>>
             ELSE IF IsSpace(s[1][1]) THEN LStrip(Tail(s)) ELSE s

RECURSIVE RStrip(_)
RStrip(s) == IF s = <<>> THEN <<>>
             ELSE IF IsSpace(s[Len(s)][1]) THEN RStrip(SubSeq(s, 1, Len(s) - 1)) ELSE s

\* s.strip()
Strip(s) == RStrip(LStrip(s))

\* the Arabic test with the last code point of the range left out
HasArabicBelowHi(s) == \E k \in 1..Len(s) : ArabicLo <= s[k][1] /\ s[k][1] < ArabicHi

\* any("\u0600" <= c <= "\u06FF" for c in para_text)
HasArabic(s) == \E k \in 1..Len(s) : ArabicLo <= s[k][1] /\ s[k][1] <= ArabicHi

RECURSIVE Concat(_)
\* "".join(seq of strings)
Concat(ss) == IF ss = <<>> THEN <<>> ELSE ss[1] \o Concat(Tail(ss))

\* ---------------------------------------------------------------- file names
DocxSuffix == <<".", "d", "o", "c", "x">>

\* index of the last "." of a name, 0 when there is none (str.rfind + 1)
LastDot(name) ==
    LET dots == {k \in 1..Len(name) : name[k] = "."}
    IN  IF dots = {} THEN 0 ELSE CHOOSE k \in dots : \A j \in dots : j <= k

\* Path(name).stem : the name without its last suffix; a leading or a
\* trailing dot starts no suffix
Stem(name) ==
    LET i == LastDot(name)
    IN  IF 1 < i /\ i < Len(name) THEN SubSeq(name, 1, i - 1) ELSE name

\* f"{filename_base}.docx"
DocxName(name) == Stem(name) \o DocxSuffix

\* ------------------------------------------------------------ sample inputs
\* code points used below: 65 is "A", 32 the space, 10 the newline
\* a string of n >= 0 copies of code point c
Rep(c, n) == IF n = 0 THEN <<>> ELSE << <<c, n>> >>

NameA == <<"a", ".", "p", "d", "f">>
NameAB == <<"a", ".", "b", ".", "p", "d", "f">>
Names == {NameA, NameAB}

\* a text block of page.get_text("dict"): "lines" -> "spans" -> "text";
\* an image block has no "lines" key
TextBlock(lines) == [haslines |-> TRUE, lines |-> lines]
ImageBlock == [haslines |-> FALSE, lines |-> <<>>]

\* the one page every PDF of a batch run is made of: 61 characters of plain
\* text, and a text block of three Arabic letters
BatchPage ==
    [text   |-> Rep(65, 60) \o Rep(10, 1),
     blocks |-> << TextBlock(<< << Rep(ArabicLo + 69, 3) >> >>) >>]

BatchPdf(name, n) == [name |-> name, pages |-> [k \in 1..n |-> BatchPage]]

\* sequences over S of a length in lo..hi
SeqsOf(S, lo, hi) == UNION {[1..n -> S] : n \in lo..hi}

BatchUploads ==
    SeqsOf({BatchPdf(nm, n) : nm \in Names, n \in 1..MaxPages}, 0, MaxFiles)

\* page texts around the scanned threshold, with and without white space at
\* their ends: plain get_text() usually ends a page's text with a newline
ScanTexts ==
    { <<>>,
      Rep(65, 49) \o Rep(10, 1),
      Rep(65, 50) \o Rep(10, 1),
      Rep(65, 99),
      Rep(65, 99) \o Rep(10, 1),
      Rep(32, 1) \o Rep(65, 100),
      Rep(32, 60) \o Rep(10, 60) }

ScanPage(text) == [text |-> text, blocks |-> << TextBlock(<< << text >> >>) >>]

\* one upload, its pages' texts drawn from ScanTexts
ScanUploads ==
    { << [name |-> NameA, pages |-> ps] >> :
        ps \in SeqsOf({ScanPage(t) : t \in ScanTexts}, 1, MaxScanPages) }

\* blocks of page.get_text("dict"): image blocks, blocks without lines, of
\* white space only, of several lines and spans, and of characters on both
\* sides of the two ends of the Arabic range
SampleBlocks ==
    { ImageBlock,
      TextBlock(<<>>),
      TextBlock(<< << Rep(32, 2) >>, << Rep(10, 1) >> >>),
      TextBlock(<< << Rep(32, 1) \o Rep(65, 2), Rep(32, 1) >> >>),
      TextBlock(<< << Rep(65, 1) >>, << Rep(32, 1), Rep(ArabicLo, 1) >> >>),
      TextBlock(<< << Rep(ArabicHi, 2) \o Rep(10, 1) >> >>),
      TextBlock(<< << Rep(ArabicLo - 1, 1) >> >>),
      TextBlock(<< << Rep(ArabicHi + 1, 1), Rep(32, 1) >> >>) }

\* one upload of one page, its blocks drawn from SampleBlocks
TextUploads ==
    { << [name |-> NameAB,
          pages |-> << [text |-> Rep(65, 120), blocks |-> bs] >>] >> :
        bs \in SeqsOf(SampleBlocks, 0, MaxBlocks) }

\* --------------------------------------------------------------------- state
VARIABLES
    rev,                \* which revision of the script runs: "A" or "B"
    convert_all_pages,  \* sidebar checkbox "Convert all pages"
    start_page,         \* sidebar number_input "Start page"
    end_page,           \* sidebar number_input "End page"
    image_fallback,     \* sidebar checkbox "embed pages as images"
    uploaded_files,     \* value of st.file_uploader
    pc,                 \* position of the run in the script
    idx,                \* loop variable of enumerate(uploaded_files), 1-based
    output_files,       \* list of (path, name)
    fs,                 \* files of the temporary directory: name -> content
    overall_progress,   \* the overall progress bar
    page_progress,      \* per upload: the page its page_progress placeholder
                        \* shows, 0 when it shows nothing
    docState,           \* per upload: state of the fitz handle bound to doc
    cvState,            \* per upload: state of the pdf2docx Converter
    word_doc,           \* the Word document of the current iteration
    exc,                \* text of the exception being handled
    download,           \* the download button of the download section
    log                 \* what the run did and displayed, in order

vars == <<rev, convert_all_pages, start_page, end_page, image_fallback,
          uploaded_files, pc, idx, output_files, fs, overall_progress,
          page_progress, docState, cvState, word_doc, exc, download, log>>

settings == <<rev, convert_all_pages, start_page, end_page, image_fallback,
              uploaded_files>>

NoDownload == [kind |-> "none", file_name |-> <<>>, data |-> <<>>, entries |-> <<>>]

\* one thing the run did or displayed; file is the upload's position, 0 for none
Entry(op, file, info) ==
    [op |-> op, file |-> file,
     name |-> IF file = 0 THEN <<>> ELSE uploaded_files[file].name,
     info |-> info]

\* the widgets' values: what the user set before the run
SidebarInputs ==
    /\ rev \in {"A", "B"}
    /\ convert_all_pages \in BOOLEAN
    /\ image_fallback \in BOOLEAN
    /\ IF convert_all_pages
       THEN start_page = NoPage /\ end_page = NoPage
       ELSE /\ start_page \in MinPageInput..(MaxPages + 1)
            /\ end_page \in MinPageInput..(MaxPages + 1)

Fresh ==
    /\ pc = "sidebar"
    /\ idx = 0
    /\ output_files = <<>>
    /\ fs = <<>>
    /\ overall_progress = [shown |-> FALSE, done |-> 0]
    /\ page_progress = <<>>
    /\ docState = <<>>
    /\ cvState = <<>>
    /\ word_doc = <<>>
    /\ exc = ""
    /\ download = NoDownload
    /\ log = <<>>

Init ==
    /\ SidebarInputs
    /\ uploaded_files \in BatchUploads
    /\ Fresh

\* ------------------------------------------------------ the Word document
Heading(name) == [t |-> "heading", page |-> 0, text |-> name, rtl |-> FALSE]
Picture(p) == [t |-> "image", page |-> p, text |-> <<>>, rtl |-> FALSE]
PageBreak(p) == [t |-> "break", page |-> p, text |-> <<>>, rtl |-> FALSE]
Paragraph(p, text, rtl) == [t |-> "para", page |-> p, text |-> text, rtl |-> rtl]
\* one page as pdf2docx writes it
ConvertedPage(p) == [t |-> "page", page |-> p, text |-> <<>>, rtl |-> FALSE]

\* the page filter of the page loop, negated: p is page_num + 1
PageSelected(p) ==
    convert_all_pages \/ (start_page <= p /\ p <= end_page)

\* image mode, one page: the picture, then the page break
ImagePage(p) == << Picture(p), PageBreak(p) >>

\* para_text of one block: the spans' texts of all its lines, concatenated
BlockText(block) == Concat([k \in 1..Len(block.lines) |-> Concat(block.lines[k])])

\* text mode, one block: at most one paragraph
BlockParagraphs(p, block) ==
    IF ~block.haslines THEN <<>>
    ELSE LET para_text == Strip(BlockText(block))
         IN  IF para_text # <<>>
             THEN << Paragraph(p, para_text, HasArabic(para_text)) >>
             ELSE <<>>

RECURSIVE BlocksParagraphs(_, _)
BlocksParagraphs(p, blocks) ==
    IF blocks = <<>> THEN <<>>
    ELSE BlockParagraphs(p, blocks[1]) \o BlocksParagraphs(p, Tail(blocks))

\* text mode, one page
TextPage(p, page) == BlocksParagraphs(p, page.blocks)

\* the body of the page loop for page p of the PDF
LoopBody(p, page) ==
    IF ~PageSelected(p) THEN <<>>
    ELSE IF image_fallback THEN ImagePage(p)
    ELSE TextPage(p, page)

RECURSIVE PageLoop(_, _)
\* for page_num in range(total_pages), from page p on
PageLoop(p, pages) ==
    IF p > Len(pages) THEN <<>>
    ELSE LoopBody(p, pages[p]) \o PageLoop(p + 1, pages)

\* word_doc as it is saved by the loop of both revisions
BuildWordDoc(file) == << Heading(file.name) >> \o PageLoop(1, file.pages)

\* cv.convert(path, start=start, end=end): pdf2docx converts the pages of the
\* slice [start:end] of the PDF's pages (0-based, end exclusive, cut at the
\* page count); end = NoPage stands for None
Pdf2docxPages(n, start, end) ==
    LET stop == IF end = NoPage \/ end > n THEN n ELSE end
    IN  [k \in 1..(IF stop > start THEN stop - start ELSE 0) |-> ConvertedPage(start + k)]

\* the two cv.convert calls of revision B
CvConvert(file) ==
    IF convert_all_pages
    THEN Pdf2docxPages(Len(file.pages), 0, NoPage)
    ELSE Pdf2docxPages(Len(file.pages), start_page - 1, end_page)

\* ------------------------------------------------------ scanned detection
\* revision A: text_chars = sum(len(page.get_text()) for page in doc)
RECURSIVE TextChars(_)
TextChars(pages) ==
    IF pages = <<>> THEN 0 ELSE TextLen(pages[1].text) + TextChars(Tail(pages))

\* the threshold taken as inclusive
ScannedAInclusive(file) == TextChars(file.pages) <= ScanThreshold

ScannedA(file) == TextChars(file.pages) < ScanThreshold

\* revision B: text += page.get_text(); is_scanned = len(text.strip()) < 100
AllText(pages) == Concat([k \in 1..Len(pages) |-> pages[k].text])

ScannedB(file) == TextLen(Strip(AllText(file.pages))) < ScanThreshold

IsScanned(file) == IF rev = "A" THEN ScannedA(file) ELSE ScannedB(file)

\* ------------------------------------------------------------- the script
CurFile == uploaded_files[idx]

\* the sidebar's page-range guard: st.stop() when start_page > end_page
RangeRejected == ~convert_all_pages /\ start_page > end_page

Sidebar ==
    /\ pc = "sidebar"
    /\ IF RangeRejected
       THEN /\ pc' = "stopped"
            /\ log' = Append(log, Entry("sidebar_error", 0, "Start page must be <= End page"))
       ELSE /\ pc' = "uploader"
            /\ log' = log
    /\ UNCHANGED <<settings, idx, output_files, fs, overall_progress,
                   page_progress, docState, cvState, word_doc, exc, download>>

\* st.file_uploader, the empty-upload stop, and the set-up of the loop
Uploader ==
    /\ pc = "uploader"
    /\ IF uploaded_files = <<>>
       THEN /\ pc' = "stopped"
            /\ log' = Append(log, Entry("info", 0, "Upload one or more PDFs"))
            /\ UNCHANGED <<idx, output_files, overall_progress, page_progress,
                           docState, cvState>>
       ELSE /\ pc' = "save"
            /\ idx' = 1
            /\ output_files' = <<>>
            /\ overall_progress' = [shown |-> TRUE, done |-> 0]
            /\ page_progress' = [k \in 1..Len(uploaded_files) |-> 0]
            /\ docState' = [k \in 1..Len(uploaded_files) |-> "none"]
            /\ cvState' = [k \in 1..Len(uploaded_files) |-> "none"]
            /\ log' = log
    /\ UNCHANGED <<settings, fs, word_doc, exc, download>>

\* input_pdf_path = temp_path / uploaded_file.name, written with the upload
InputPath(file) == file.name
\* output_docx_path = temp_path / f"{filename_base}.docx"
OutputPath(file) == DocxName(file.name)

PdfFile(i) == [kind |-> "pdf", src |-> i, body |-> <<>>]
DocxFile(i, body) == [kind |-> "docx", src |-> i, body |-> body]

\* the preview is shown for the first upload
ShowsPreview == idx = 1 \/ Len(uploaded_files) = 1

SaveUpload ==
    /\ pc = "save"
    /\ fs' = (InputPath(CurFile) :> PdfFile(idx)) @@ fs
    /\ log' = IF ShowsPreview
              THEN log \o << Entry("save", idx, ""), Entry("preview", idx, "") >>
              ELSE Append(log, Entry("save", idx, ""))
    /\ pc' = "scan"
    /\ UNCHANGED <<settings, idx, output_files, overall_progress, page_progress,
                   docState, cvState, word_doc, exc, download>>

\* the state the scanned detection leaves the fitz handle in
DocAfterScan == IF rev = "A" THEN "open" ELSE "closed"

\* fitz.open on the upload, the text count and the warning; all of it outside
\* the try block: an upload fitz cannot open ends the run
ScanDetect ==
    /\ pc = "scan"
    /\ \E readable \in BOOLEAN :
         IF ~readable
         THEN /\ pc' = "crashed"
              /\ log' = Append(log, Entry("uncaught", idx, "cannot open document"))
              /\ UNCHANGED docState
         ELSE /\ pc' = "try"
              /\ docState' = [docState EXCEPT ![idx] = DocAfterScan]
              /\ log' = IF IsScanned(CurFile)
                        THEN log \o << Entry("warning", idx, "appears scanned"),
                                       Entry("status", idx, "Processing") >>
                        ELSE Append(log, Entry("status", idx, "Processing"))
    /\ UNCHANGED <<settings, idx, output_files, fs, overall_progress,
                   page_progress, cvState, word_doc, exc, download>>

\* which branch of the try block runs
UsesPageLoop == rev = "A" \/ image_fallback

\* the page loop stops at page `fault` when that page is selected and cannot
\* be loaded or rendered (fault = 0: every page can)
LoopRaises(fault) == fault # 0 /\ PageSelected(fault)

\* the try block up to the saved document (or the raised exception)
Convert ==
    /\ pc = "try"
    /\ \E fault \in 0..Len(CurFile.pages) :
         IF UsesPageLoop
         THEN \* doc.page_count / len(doc), then the page loop on doc
              IF docState[idx] # "open"
              THEN /\ word_doc' = << Heading(CurFile.name) >>
                   /\ exc' = "document closed"
                   /\ pc' = "except"
                   /\ UNCHANGED <<fs, cvState, page_progress>>
              ELSE IF LoopRaises(fault)
              THEN /\ word_doc' = << Heading(CurFile.name) >>
                                   \o PageLoop(1, SubSeq(CurFile.pages, 1, fault - 1))
                   /\ exc' = "page error"
                   /\ pc' = "except"
                   /\ page_progress' = [page_progress EXCEPT ![idx] = fault]
                   /\ UNCHANGED <<fs, cvState>>
              ELSE /\ word_doc' = BuildWordDoc(CurFile)
                   /\ fs' = (OutputPath(CurFile) :> DocxFile(idx, word_doc')) @@ fs
                   /\ exc' = ""
                   /\ pc' = "saved"
                   /\ page_progress' = [page_progress EXCEPT ![idx] = 0]
                   /\ UNCHANGED cvState
         ELSE \* cv = Converter(input_pdf_path); cv.convert(...); cv.close().
              \* A Converter has the attribute `pages`, so total_pages is
              \* len(cv.pages) and doc is not used.  Whether pdf2docx raises on
              \* a slice that selects no page is the library's matter: the
              \* model has both outcomes.
              IF fault # 0
              THEN /\ cvState' = [cvState EXCEPT ![idx] = "open"]
                   /\ exc' = "conversion error"
                   /\ pc' = "except"
                   /\ UNCHANGED <<fs, word_doc, page_progress>>
              ELSE /\ cvState' = [cvState EXCEPT ![idx] = "closed"]
                   /\ fs' = (OutputPath(CurFile) :> DocxFile(idx, CvConvert(CurFile))) @@ fs
                   /\ exc' = ""
                   /\ pc' = "saved"
                   /\ UNCHANGED <<word_doc, page_progress>>
    /\ log' = Append(log, Entry("convert", idx, ""))
    /\ UNCHANGED <<settings, idx, output_files, overall_progress, docState, download>>

\* a loop that leaves out the last upload
NextIterationShort ==
    IF idx + 1 < Len(uploaded_files)
    THEN idx' = idx + 1 /\ pc' = "save"
    ELSE idx' = idx /\ pc' = "after_loop"

\* the end of one iteration: the next upload, or the end of the loop
NextIteration ==
    IF idx < Len(uploaded_files)
    THEN idx' = idx + 1 /\ pc' = "save"
    ELSE idx' = idx /\ pc' = "after_loop"

\* outputs collected newest first
PrependOutput(outs, file) == <<<<OutputPath(file), DocxName(file.name)>>>> \o outs

\* output_files.append((output_docx_path, f"{filename_base}.docx"))
AppendOutput(outs, file) == Append(outs, <<OutputPath(file), DocxName(file.name)>>)

\* overall_progress.progress((idx + 1) / len(uploaded_files)): the numerator
ProgressAfter(i) == i

\* the end of the try block and the statement after it
Register ==
    /\ pc = "saved"
    /\ output_files' = AppendOutput(output_files, CurFile)
    /\ overall_progress' = [shown |-> TRUE, done |-> ProgressAfter(idx)]
    /\ log' = Append(log, Entry("register", idx, ""))
    /\ NextIteration
    /\ UNCHANGED <<settings, fs, page_progress, docState, cvState, word_doc,
                   exc, download>>

\* an except block without its continue: the run falls through to the
\* progress update
ExceptFallsThrough ==
    /\ pc = "except"
    /\ log' = Append(log, Entry("error", idx, exc))
    /\ overall_progress' = [shown |-> TRUE, done |-> ProgressAfter(idx)]
    /\ NextIteration
    /\ UNCHANGED <<settings, output_files, fs, page_progress, docState,
                   cvState, word_doc, exc, download>>

\* except Exception as e: st.error(...); continue
Except ==
    /\ pc = "except"
    /\ log' = Append(log, Entry("error", idx, exc))
    /\ NextIteration
    /\ UNCHANGED <<settings, output_files, fs, overall_progress, page_progress,
                   docState, cvState, word_doc, exc, download>>

\* status_text.text("All complete!"); overall_progress.empty()
AfterLoop ==
    /\ pc = "after_loop"
    /\ overall_progress' = [shown |-> FALSE, done |-> 0]
    /\ log' = Append(log, Entry("status", 0, "All complete"))
    /\ pc' = "download"
    /\ UNCHANGED <<settings, idx, output_files, fs, page_progress, docState,
                   cvState, word_doc, exc, download>>

ZipPath == <<"converted_files.zip">>
ZipDownloadName ==
    IF rev = "A" THEN <<"converted_arabic_files.zip">> ELSE <<"arabic_converted_files.zip">>

\* if len(output_files) == 1
SingleOutput(outs) == Len(outs) = 1

\* for path, name in output_files: z.write(path, name)
ZipEntries(outs) == [k \in 1..Len(outs) |-> [arcname |-> outs[k][2], content |-> fs[outs[k][1]]]]

\* the download section
Download ==
    /\ pc = "download"
    /\ IF SingleOutput(output_files)
       THEN /\ download' = [kind |-> "docx", file_name |-> output_files[1][2],
                            data |-> << fs[output_files[1][1]] >>, entries |-> <<>>]
            /\ fs' = fs
       ELSE /\ download' = [kind |-> "zip", file_name |-> ZipDownloadName,
                            data |-> <<>>, entries |-> ZipEntries(output_files)]
            /\ fs' = (ZipPath :> [kind |-> "zip", src |-> 0, body |-> <<>>]) @@ fs
    /\ log' = Append(log, Entry("download", 0, download'.kind))
    /\ pc' = "success"
    /\ UNCHANGED <<settings, idx, output_files, overall_progress, page_progress,
                   docState, cvState, word_doc, exc>>

\* st.success(...); st.balloons(); the feedback widget
Success ==
    /\ pc = "success"
    /\ log' = Append(log, Entry("success", 0, ""))
    /\ pc' = "done"
    /\ UNCHANGED <<settings, idx, output_files, fs, overall_progress,
                   page_progress, docState, cvState, word_doc, exc, download>>

Next ==
    \/ Sidebar
    \/ Uploader
    \/ SaveUpload
    \/ ScanDetect
    \/ Convert
    \/ Register
    \/ Except
    \/ AfterLoop
    \/ Download
    \/ Success

Spec == Init /\ [][Next]_vars

\* runs on one upload whose page texts lie around the scanned threshold
InitScan ==
    /\ SidebarInputs
    /\ uploaded_files \in ScanUploads
    /\ Fresh

SpecScan == InitScan /\ [][Next]_vars

\* runs on one upload of one page with varied text blocks
InitText ==
    /\ SidebarInputs
    /\ uploaded_files \in TextUploads
    /\ Fresh

SpecText == InitText /\ [][Next]_vars

\* ===================================================================== claims
NFiles == Len(uploaded_files)

\* where the run logged `op` for upload i
Positions(op, i) == {k \in 1..Len(log) : log[k].op = op /\ log[k].file = i}

\* where the run logged the end of upload i: registered, or reported failed
Outcomes(i) == Positions("register", i) \cup Positions("error", i)

Before(S, k) == \E j \in S : j < k

DownloadOffered == download.kind # "none"

\* C1: every upload is handled at most once and in upload order; for each
\* upload the saved copy comes before the conversion and the conversion
\* before the entry in output_files (or the error); output_files holds one
\* entry per registered upload; and once the download button is offered every
\* upload has been saved, converted and either registered or reported failed,
\* each exactly once.
C1_OrderedHandling ==
    /\ \A i \in 1..NFiles :
         LET saves == Positions("save", i)
             convs == Positions("convert", i)
             outs  == Outcomes(i)
         IN  /\ Cardinality(saves) <= 1
             /\ Cardinality(convs) <= 1
             /\ Cardinality(outs) <= 1
             /\ saves # {} => InputPath(uploaded_files[i]) \in DOMAIN fs
             /\ \A c \in convs : Before(saves, c)
             /\ \A r \in outs : Before(convs, r)
             /\ \A k \in saves : \A j \in 1..(i - 1) : Before(Outcomes(j), k)
             /\ DownloadOffered =>
                  /\ Cardinality(saves) = 1
                  /\ Cardinality(convs) = 1
                  /\ Cardinality(outs) = 1
                  /\ \A d \in Positions("download", 0) : Before(outs, d)
    /\ Len(output_files) = Cardinality({k \in 1..Len(log) : log[k].op = "register"})

\* a finished run on two uploads, one converted and one failed
C1_Witness ==
    /\ pc = "done"
    /\ NFiles = 2
    /\ DownloadOffered
    /\ Positions("error", 1) # {}
    /\ Positions("register", 2) # {}

\* C2: the step that handles an exception of the try block displays one error
\* naming the upload and its exception and changes nothing else but the
\* position of the loop: output_files, the temporary directory and the overall
\* progress bar stay as they are, the try block is not entered again, and the
\* run goes on to the next upload (to the end of the loop after the last
\* one); the failing conversion itself has saved and registered nothing and
\* has not advanced the overall progress bar.
C2_ExceptionIsLocal ==
    [][ /\ (pc = "try" /\ pc' = "except") =>
              /\ output_files' = output_files
              /\ fs' = fs
              /\ overall_progress' = overall_progress
        /\ pc = "except" =>
              /\ log' = Append(log, [op |-> "error", file |-> idx,
                                     name |-> uploaded_files[idx].name, info |-> exc])
              /\ UNCHANGED <<output_files, fs, overall_progress, page_progress,
                             docState, cvState, download>>
              /\ overall_progress.done # idx
              /\ Positions("register", idx) = {}
              /\ pc' # "try"
              /\ IF idx < NFiles
                 THEN idx' = idx + 1 /\ pc' = "save"
                 ELSE pc' = "after_loop"
      ]_vars

\* the first of two uploads failed, and the second was converted after it
C2_Witness ==
    /\ NFiles = 2
    /\ Positions("error", 1) # {}
    /\ Positions("register", 2) # {}
    /\ Len(output_files) = 1
    /\ overall_progress = [shown |-> TRUE, done |-> 2]

\* the uploads the run converted and registered, in upload order
RECURSIVE ConvertedFrom(_)
ConvertedFrom(i) ==
    IF i > NFiles THEN <<>>
    ELSE (IF Positions("register", i) # {} THEN <<i>> ELSE <<>>) \o ConvertedFrom(i + 1)

\* C5: after the download section, with exactly one converted upload the
\* download is that upload's Word file, named <stem>.docx; otherwise it is one
\* ZIP whose entries are those of output_files: one per converted upload,
\* named <stem>.docx, in upload order.
C5_DownloadPackaging ==
    pc \in {"success", "done"} =>
        LET conv == ConvertedFrom(1)
        IN  IF Len(conv) = 1
            THEN /\ download.kind = "docx"
                 /\ download.file_name = DocxName(uploaded_files[conv[1]].name)
                 /\ download.data = << fs[OutputPath(uploaded_files[conv[1]])] >>
                 /\ download.data[1].src = conv[1]
            ELSE /\ download.kind = "zip"
                 /\ Len(download.entries) = Len(conv)
                 /\ Len(download.entries) = Len(output_files)
                 /\ \A k \in 1..Len(conv) :
                      /\ download.entries[k].arcname = DocxName(uploaded_files[conv[k]].name)
                      /\ download.entries[k].arcname = output_files[k][2]
                      /\ download.entries[k].content = fs[output_files[k][1]]

\* a ZIP of two converted uploads
C5_WitnessZip ==
    /\ pc = "done"
    /\ download.kind = "zip"
    /\ Len(download.entries) = 2
    /\ download.entries[1].arcname # download.entries[2].arcname

\* ---------------------------------------------------------------- C7
\* the runs of all the spans of a block, in order
BlockRuns(b) == BlockText(b)

\* a block that has lines and, in them, a character that is not white space
HasInk(b) == b.haslines /\ \E k \in 1..Len(BlockRuns(b)) : ~IsSpace(BlockRuns(b)[k][1])

\* the text of a block from its first to its last such character
InkText(b) ==
    LET runs == BlockRuns(b)
        ink  == {k \in 1..Len(runs) : ~IsSpace(runs[k][1])}
        lo   == CHOOSE k \in ink : \A j \in ink : k <= j
        hi   == CHOOSE k \in ink : \A j \in ink : j <= k
    IN  SubSeq(runs, lo, hi)

InArabicRange(c) == c >= 1536 /\ c <= 1791

IsPara(e) == e.t = "para"

\* C7: in text mode of revision A the saved document holds, after its
\* heading, exactly one paragraph per text block of a selected page that has a
\* character other than white space, in block order, with the block's text
\* from its first to its last such character; blocks without lines or of
\* white space only give none; and a paragraph is right-to-left exactly when
\* its text has a code point in U+0600..U+06FF.
C7_TextParagraphs ==
    (rev = "A" /\ ~image_fallback /\ pc = "saved") =>
        LET body   == fs[OutputPath(CurFile)].body
            paras  == SelectSeq(body, IsPara)
            blocks == IF PageSelected(1) THEN SelectSeq(CurFile.pages[1].blocks, HasInk)
                      ELSE <<>>
        IN  /\ body = word_doc
            /\ body = << Heading(CurFile.name) >> \o paras
            /\ Len(paras) = Len(blocks)
            /\ \A k \in 1..Len(paras) :
                 /\ paras[k].text = InkText(blocks[k])
                 /\ paras[k].rtl <=>
                      \E r \in 1..Len(paras[k].text) : InArabicRange(paras[k].text[r][1])

\* a saved document with one right-to-left paragraph, from a page whose other
\* block gives no paragraph
C7_Witness ==
    /\ rev = "A" /\ ~image_fallback /\ pc = "saved"
    /\ Len(CurFile.pages[1].blocks) = 2
    /\ Len(word_doc) = 2
    /\ word_doc[2].rtl

\* ---------------------------------------------------------------- C6
\* the number of characters of runs lo..hi of a text
RECURSIVE CountChars(_, _, _)
CountChars(runs, lo, hi) ==
    IF lo > hi THEN 0 ELSE runs[lo][2] + CountChars(runs, lo + 1, hi)

\* all the text fitz extracts from a file, page after page
ExtractedText(file) == AllText(file.pages)

\* its length
ExtractedLen(file) ==
    LET runs == ExtractedText(file) IN CountChars(runs, 1, Len(runs))

\* its length without the white space before its first and after its last
\* character that is not white space
ExtractedCoreLen(file) ==
    LET runs == ExtractedText(file)
        ink  == {k \in 1..Len(runs) : ~IsSpace(runs[k][1])}
    IN  IF ink = {} THEN 0
        ELSE CountChars(runs, CHOOSE k \in ink : \A j \in ink : k <= j,
                              CHOOSE k \in ink : \A j \in ink : j <= k)

\* upload i has gone through the scanned detection
Scanned(i) == Positions("status", i) # {}
Warned(i) == Positions("warning", i) # {}

\* the kinds of the elements a saved document may hold after its heading
ModeKinds ==
    IF image_fallback THEN {"image", "break"}
    ELSE IF rev = "A" THEN {"para"} ELSE {"page"}

\* the warning changes nothing else: the conversion is the next thing the run
\* does, warned or not, and what it saves is what the chosen mode writes
Advisory ==
    /\ \A i \in 1..NFiles : \A k \in Positions("status", i) :
          k < Len(log) => (log[k + 1].op = "convert" /\ log[k + 1].file = i)
    /\ pc = "saved" =>
          LET body == fs[OutputPath(CurFile)].body
          IN  \A k \in 1..Len(body) : body[k].t \in ModeKinds \cup {"heading"}

\* C6 as stated: the warning is shown exactly for the uploads whose extracted
\* text is shorter than 100 characters, the two revisions warn on the same
\* files, and the warning is advisory only.
C6_Original ==
    /\ \A i \in 1..NFiles :
         Scanned(i) =>
            /\ Warned(i) <=> ExtractedLen(uploaded_files[i]) < 100
            /\ ScannedA(uploaded_files[i]) <=> ScannedB(uploaded_files[i])
    /\ Advisory

\* C6 as amended: revision A warns exactly when the extracted text is shorter
\* than 100 characters; revision B exactly when the extracted text, without
\* its leading and trailing white space, is shorter than 100 characters; so
\* revision B warns on every file revision A warns on; the warning is
\* advisory only.
C6_Amended ==
    /\ \A i \in 1..NFiles :
         /\ Scanned(i) =>
              (Warned(i) <=> IF rev = "A" THEN ExtractedLen(uploaded_files[i]) < 100
                             ELSE ExtractedCoreLen(uploaded_files[i]) < 100)
         /\ Scanned(i) => (ScannedA(uploaded_files[i]) => ScannedB(uploaded_files[i]))
         /\ ~Scanned(i) => ~Warned(i)
    /\ Advisory

\* revision B has warned on a file of 100 or more characters and converted it
C6_Witness ==
    /\ rev = "B"
    /\ pc = "saved"
    /\ Warned(1)
    /\ ExtractedLen(uploaded_files[1]) >= 100
    /\ ExtractedCoreLen(uploaded_files[1]) = 99

\* ------------------------------------------------------- C3, C4
\* the pages of a file the options select
SelectedPages(file) ==
    {p \in 1..Len(file.pages) :
        convert_all_pages \/ (p >= start_page /\ p <= end_page)}

\* the k-th selected page, in page order
KthSelected(file, k) ==
    CHOOSE p \in SelectedPages(file) :
        Cardinality({q \in SelectedPages(file) : q < p}) = k - 1

\* an exception of the libraries' own: a page that cannot be rendered, a PDF
\* pdf2docx cannot convert
LibraryFailure == exc \in {"page error", "conversion error"}

\* C3: in image mode, in both revisions, an upload whose pages can all be
\* rendered is saved and registered, and its document holds, after the
\* heading, one picture and then one page break for each selected page, in
\* page order.
C3_ImageModeEmbedsPages ==
    image_fallback =>
        /\ pc = "except" => LibraryFailure
        /\ pc = "saved" =>
             LET body == fs[OutputPath(CurFile)].body
                 n    == Cardinality(SelectedPages(CurFile))
             IN  /\ Len(body) = 1 + 2 * n
                 /\ \A k \in 1..n :
                      /\ body[2 * k] = Picture(KthSelected(CurFile, k))
                      /\ body[2 * k + 1] = PageBreak(KthSelected(CurFile, k))

\* the pages of the current upload that are in its saved document
PagesConverted ==
    IF pc = "saved"
    THEN LET body == fs[OutputPath(CurFile)].body
         IN  {body[k].page : k \in {j \in 1..Len(body) : body[j].t # "heading"}}
    ELSE {}

\* C4: a rejected page range stops the run before anything is saved or
\* converted; otherwise, at the end of the try block of an upload the
\* libraries could convert, the pages converted are exactly the selected
\* pages: start_page..end_page cut at the page count, or all pages.
C4_PageRange ==
    /\ RangeRejected =>
         /\ pc \in {"sidebar", "stopped"}
         /\ fs = <<>>
         /\ \A k \in 1..Len(log) : log[k].op \notin {"save", "convert"}
    /\ (pc \in {"saved", "except"} /\ ~LibraryFailure) =>
         PagesConverted = SelectedPages(CurFile)

\* --------------------------------------------------------------- C8
SuccessShown == Positions("success", 0) # {}

\* C8: a run that shows the success message with a download button has
\* converted at least one upload, and the download contains it.
C8_SuccessMeansOutput ==
    (SuccessShown /\ DownloadOffered) =>
        /\ \E i \in 1..NFiles : Positions("register", i) # {}
        /\ download.kind = "zip" => Len(download.entries) >= 1

\* --------------------------------------------------------------- C9
\* C9: no upload's saved PDF or .docx is overwritten by another upload, and
\* the names of the ZIP's entries are pairwise distinct.
C9_DistinctOutputs ==
    /\ \A i \in 1..NFiles :
         /\ Positions("save", i) # {} => fs[InputPath(uploaded_files[i])].src = i
         /\ Positions("register", i) # {} => fs[OutputPath(uploaded_files[i])].src = i
    /\ \A j, k \in 1..Len(download.entries) :
         j # k => download.entries[j].arcname # download.entries[k].arcname

\* --------------------------------------------------------------- C10
\* C10: once an upload has been registered or reported failed, the fitz
\* handle and the Converter opened for it are closed; and no page count or
\* page load is made on a closed handle.
C10_HandlesClosed ==
    /\ \A i \in 1..NFiles :
         Outcomes(i) # {} => (docState[i] # "open" /\ cvState[i] # "open")
    /\ exc # "document closed"

====
